---- MODULE Spec2Model ----
(***************************************************************************)
(* Form-state containers of tiesen243/zod-form.                            *)
(*                                                                         *)
(*   Variant A  src/app/with-mutation/_form.tsx   <Form> + FormField,      *)
(*              used by CreatePostForm (page.client.tsx) with a mutation   *)
(*   Variant B  src/components/ui/form.tsx        useForm + <Form>,        *)
(*              used by Home (page.tsx)                                    *)
(*                                                                         *)
(* A string is a sequence of one-character strings, so that parseInt,      *)
(* toLowerCase and trim are computed character by character.               *)
(***************************************************************************)
EXTENDS Integers, Sequences, FiniteSets, TLC

VARIABLES
    variant,     \* which container is mounted: "A" or "B"
    a_props,     \* Variant A: the props of <Form>
    a_data,      \* Variant A: the `data` state (useState, _form.tsx:41)
    a_inflight,  \* Variant A: onSubmit tasks started and not yet settled
    b_props,     \* Variant B: the options of useForm
    b_formData,  \* Variant B: the `formData` state (form.tsx:23)
    b_errors,    \* Variant B: the `errors` state (form.tsx:24)
    b_isPending, \* Variant B: the flag of useTransition (form.tsx:22)
    b_awaiting,  \* Variant B: transition actions suspended at `await onSubmit`
    b_settling,  \* Variant B: transition actions that returned, not yet committed
    written,     \* history: per field, the last value written through the setter
    ev           \* history: what the last step did (calls made, value thrown)

vars == <<variant, a_props, a_data, a_inflight, b_props, b_formData, b_errors,
          b_isPending, b_awaiting, b_settling, written, ev>>

a_vars == <<a_props, a_data, a_inflight>>
b_vars == <<b_props, b_formData, b_errors, b_isPending, b_awaiting, b_settling>>

\* Most submissions that may be in flight at once (the code sets no limit).
MaxInFlight == 2

-----------------------------------------------------------------------------
(* Strings *)

Hello == <<"H", "e", "l", "l", "o">>
hello == <<"h", "e", "l", "l", "o">>

\* The strings a user types or a caller passes in this model.
InputStrings ==
    { <<>>,
      <<"4", "2">>,
      <<"a", "b", "c">>,
      <<"1", "2", "a">>,
      <<"-", "7">>,
      <<" ", "5">>,
      <<"3", ".", "7">> }

TitleStrings == { <<>>, <<"x">>, Hello, <<" ", "h", "e", "l", "l", "o", " ">> }

DigitChars == {"0", "1", "2", "3", "4", "5", "6", "7", "8", "9"}

DigitValue(c) ==
    CASE c = "0" -> 0 [] c = "1" -> 1 [] c = "2" -> 2 [] c = "3" -> 3
      [] c = "4" -> 4 [] c = "5" -> 5 [] c = "6" -> 6 [] c = "7" -> 7
      [] c = "8" -> 8 [] c = "9" -> 9

IsWhiteSpace(c) == c = " "

RECURSIVE TrimStart(_)
TrimStart(s) ==
    IF s # <<>> /\ IsWhiteSpace(Head(s)) THEN TrimStart(Tail(s)) ELSE s

RECURSIVE TrimEnd(_)
TrimEnd(s) ==
    IF s # <<>> /\ IsWhiteSpace(s[Len(s)])
    THEN TrimEnd(SubSeq(s, 1, Len(s) - 1))
    ELSE s

\* String.prototype.trim
Trim(s) == TrimEnd(TrimStart(s))

LowerChar(c) == IF c = "H" THEN "h" ELSE c

\* String.prototype.toLowerCase
ToLowerCase(s) == [i \in 1..Len(s) |-> LowerChar(s[i])]

\* The longest prefix of s made of decimal digits.
RECURSIVE DigitPrefix(_)
DigitPrefix(s) ==
    IF s # <<>> /\ Head(s) \in DigitChars
    THEN <<Head(s)>> \o DigitPrefix(Tail(s))
    ELSE <<>>

RECURSIVE DecimalValue(_)
DecimalValue(ds) ==
    IF ds = <<>> THEN 0
    ELSE DecimalValue(SubSeq(ds, 1, Len(ds) - 1)) * 10 + DigitValue(ds[Len(ds)])

\* A JavaScript number that is an integer or NaN.
NaN == [nan |-> TRUE, n |-> 0]
Int32(n) == [nan |-> FALSE, n |-> n]

\* parseInt(value, 10): leading white space is skipped, one sign is read, then
\* the longest run of digits; NaN when that run is empty.
ParseInt10(s) ==
    LET S == TrimStart(s)
        neg == S # <<>> /\ Head(S) = "-"
        rest == IF S # <<>> /\ Head(S) \in {"-", "+"} THEN Tail(S) ELSE S
        Z == DigitPrefix(rest)
    IN  IF Z = <<>> THEN NaN
        ELSE Int32(IF neg THEN 0 - DecimalValue(Z) ELSE DecimalValue(Z))

NumberIsNaN(x) == x.nan

-----------------------------------------------------------------------------
(* Values of Variant A's data map: a string or a number *)

Str(s) == [t |-> "string", s |-> s, n |-> 0]
Num(n) == [t |-> "number", s |-> <<>>, n |-> n]

\* What onChange receives: a raw string (a Select's onValueChange) or a change
\* event of an input element.
RawString(s) == [kind |-> "string", value |-> s, currentTarget |-> [value |-> <<>>]]
ChangeEvent(s) == [kind |-> "event", value |-> <<>>, currentTarget |-> [value |-> s]]

ChangeInputs == {RawString(s) : s \in InputStrings} \cup {ChangeEvent(s) : s \in InputStrings}

\* The history of writes: nothing written to any field of `fields` yet.
NothingWritten(fields) == [f \in fields |-> [set |-> FALSE, v |-> <<>>]]

NoThrow == [kind |-> "none", message |-> "", fieldErrors |-> <<>>]

\* The values a submit handler may throw or reject with: an Error, a value that
\* is no Error (throw 'x'), a ZodError of its own.
AppError == [kind |-> "Error", message |-> "Title is invalid", fieldErrors |-> <<>>]
NonError == [kind |-> "NonError", message |-> "rejected", fieldErrors |-> <<>>]
HandlerZodError ==
    [kind |-> "ZodError", message |-> "", fieldErrors |-> [f \in {"title"} |-> <<"Taken">>]]

HandlerOutcomes == {NoThrow, AppError, NonError, HandlerZodError}

\* Nothing rendered in this step.
NoView ==
    [control |-> "", name |-> "", inForm |-> FALSE, inField |-> FALSE, inItem |-> FALSE,
     outcome |-> "", thrownBy |-> "", error |-> <<>>, disabled |-> FALSE,
     idDefined |-> FALSE]

\* The history record of a step that made no call.
Quiet(op) ==
    [op |-> op, name |-> "", type |-> "", input |-> RawString(<<>>), src |-> "",
     valid |-> FALSE, wasPending |-> FALSE, onSubmitArgs |-> <<>>, onErrorArgs |-> <<>>,
     thrown |-> NoThrow, escaped |-> FALSE, before |-> <<>>, view |-> NoView]

-----------------------------------------------------------------------------
(* Variant A: src/app/with-mutation/_form.tsx *)

FieldsA == {"title", "price"}

\* CreatePostForm renders `title` with the default type and `price` with
\* type="number".
FieldTypeA(name) == IF name = "price" THEN "number" ELSE "text"

\* defaultValues of CreatePostForm, restricted to FieldsA.
DefaultValuesA == [f \in FieldsA |-> IF f = "price" THEN Num(0) ELSE Str(<<>>)]

\* The props CreatePostForm passes: onSubmit={mutate}, isPending={isPending},
\* no isReset; its submit button is disabled={isPending}.
CreatePostFormProps ==
    [caller |-> "CreatePostForm", onSubmit |-> "mutate", isReset |-> FALSE,
     passesIsPending |-> TRUE, submitDisabled |-> TRUE]

\* The props of any caller: onSubmit omitted ("none"), an async function
\* ("async") or a fire-and-forget runner ("mutate"); isReset and isPending are
\* optional.
PropsA ==
    {CreatePostFormProps} \cup
    { [caller |-> "other", onSubmit |-> h, isReset |-> r, passesIsPending |-> w,
       submitDisabled |-> FALSE] :
        h \in {"none", "async", "mutate"}, r \in BOOLEAN, w \in BOOLEAN }

\* The isPending prop: the caller's flag of a task in flight, or undefined.
IsPendingA == a_props.passesIsPending /\ a_inflight > 0

\* <fieldset disabled={isPending}> of FormItem.
FormItemDisabledA == IsPendingA

\* typeof event === 'string' ? event : event.currentTarget.value
EventValue(event) ==
    IF event.kind = "string" THEN event.value ELSE event.currentTarget.value

FieldValue_ignoresType(type, value) == Str(value)

\* The value onChange stores: parseInt with a fallback of 0 for type 'number',
\* the string itself otherwise.
FieldValue(type, value) ==
    IF type = "number"
    THEN IF NumberIsNaN(ParseInt10(value)) THEN Num(0) ELSE Num(ParseInt10(value).n)
    ELSE Str(value)

SetData_overDefaults(prev, data) ==
    [k \in DOMAIN prev |-> IF k \in DOMAIN data THEN data[k] ELSE DefaultValuesA[k]]

\* setFormData((prev) => ({ ...prev, ...data }))
SetData(prev, data) ==
    [k \in DOMAIN prev \cup DOMAIN data |-> IF k \in DOMAIN data THEN data[k] ELSE prev[k]]

DataAfterSubmit_keeps(props, data) == data

\* if (isReset) setFormData(defaultValues)
DataAfterSubmit(props, data) == IF props.isReset THEN DefaultValuesA ELSE data

WrittenAfterSubmit(props, w) == IF props.isReset THEN NothingWritten(FieldsA) ELSE w

\* Where a submit event comes from: implicit submission from a bound control
\* (inside a FormItem fieldset), or a submitter among the form's children that
\* only its caller can disable.
SubmitSources == {"control", "submitter"}

SubmitEnabledA(src) ==
    IF src = "control" THEN ~FormItemDisabledA
    ELSE ~(a_props.submitDisabled /\ IsPendingA)

\* FormField's onChange.
AChange(name, event) ==
    /\ variant = "A"
    /\ ~FormItemDisabledA
    /\ LET v == FieldValue(FieldTypeA(name), EventValue(event))
       IN  /\ a_data' = SetData(a_data, [k \in {name} |-> v])
           /\ written' = [written EXCEPT ![name] = [set |-> TRUE, v |-> v]]
    /\ ev' = [Quiet("change") EXCEPT !.name = name, !.type = FieldTypeA(name), !.input = event]
    /\ UNCHANGED <<variant, a_props, a_inflight, b_vars>>

\* Form.handleSubmit up to and including `await onSubmit(data)`; a runner that
\* returns at once ("mutate") lets the handler run to its end in the same step.
ASubmit(src) ==
    /\ variant = "A"
    /\ SubmitEnabledA(src)
    /\ a_inflight < MaxInFlight
    /\ IF a_props.onSubmit = "none"
       THEN /\ ev' = [Quiet("submit") EXCEPT !.src = src]
            /\ UNCHANGED <<a_data, a_inflight, written>>
       ELSE /\ ev' = [Quiet("submit") EXCEPT !.src = src, !.onSubmitArgs = <<a_data>>,
                                              !.before = a_data,
                                              !.wasPending = IsPendingA]
            /\ a_inflight' = a_inflight + 1
            /\ IF a_props.onSubmit = "mutate"
               THEN /\ a_data' = DataAfterSubmit(a_props, a_data)
                    /\ written' = WrittenAfterSubmit(a_props, written)
               ELSE UNCHANGED <<a_data, written>>
    /\ UNCHANGED <<variant, a_props, b_vars>>

\* The task started by onSubmit settles. For an async onSubmit this resumes
\* handleSubmit after its await: on a rejection the promise handleSubmit
\* returned rejects, with nothing to catch it.
ASettle(outcome) ==
    /\ variant = "A"
    /\ a_inflight > 0
    /\ a_inflight' = a_inflight - 1
    /\ IF a_props.onSubmit = "async" /\ outcome.kind = "none"
       THEN /\ a_data' = DataAfterSubmit(a_props, a_data)
            /\ written' = WrittenAfterSubmit(a_props, written)
       ELSE UNCHANGED <<a_data, written>>
    /\ ev' = [Quiet("settle") EXCEPT !.thrown = outcome, !.before = a_data,
                                      !.escaped = (a_props.onSubmit = "async" /\ outcome.kind # "none")]
    /\ UNCHANGED <<variant, a_props, b_vars>>

-----------------------------------------------------------------------------
(* Variant B: src/components/ui/form.tsx *)

FieldsB == {"title", "content"}

\* defaultValues of Home.
DefaultValuesB == [f \in FieldsB |-> <<>>]

\* The options Home passes to useForm: a synchronous onSubmit and an onError;
\* its submit button is disabled={form.isPending}.
HomeProps == [caller |-> "Home", onSubmit |-> "sync", onError |-> TRUE, submitDisabled |-> TRUE]

\* The options of any caller: an async onSubmit, onError optional.
PropsB ==
    {HomeProps} \cup
    { [caller |-> "other", onSubmit |-> "async", onError |-> e, submitDisabled |-> FALSE] :
        e \in BOOLEAN }

\* zod's message for z.string().min(1).
MsgTooSmall == "String must contain at least 1 character(s)"

\* The fields the schema of Home rejects: title and content are
\* z.string().min(1).
Issues(data) == {f \in FieldsB : Len(data[f]) < 1}

\* error.flatten().fieldErrors of schema.parse(data): one entry per rejected
\* field, none for the others.
FieldErrors(data) == [f \in Issues(data) |-> <<MsgTooSmall>>]

\* schema.parse(formData): the ZodError it throws, or NoThrow.
SchemaParse(data) ==
    IF Issues(data) = {} THEN NoThrow
    ELSE [kind |-> "ZodError", message |-> "", fieldErrors |-> FieldErrors(data)]

\* onSubmit of Home: throws when the title, lowercased and trimmed, is 'hello'.
HomeOnSubmit(data) ==
    IF Trim(ToLowerCase(data["title"])) = hello THEN AppError ELSE NoThrow

ErrorsAfterCatch_merges(errors, thrown) ==
    IF thrown.kind = "ZodError"
    THEN [f \in DOMAIN errors \cup DOMAIN thrown.fieldErrors |->
            IF f \in DOMAIN thrown.fieldErrors THEN thrown.fieldErrors[f] ELSE errors[f]]
    ELSE errors

\* catch: if (error instanceof z.ZodError) setErrors(error.flatten().fieldErrors)
ErrorsAfterCatch(errors, thrown) ==
    IF thrown.kind = "ZodError" THEN thrown.fieldErrors ELSE errors

OnErrorCalls_swallows(props, thrown) == <<>>

\* catch: if (error instanceof Error && onError) onError(error). A ZodError has
\* returned before this test.
OnErrorCalls(props, thrown) ==
    IF thrown.kind = "Error" /\ props.onError THEN <<thrown>> ELSE <<>>

\* setFormData((prev) => ({ ...prev, [name]: value }))
SetValue(prev, name, value) ==
    [k \in DOMAIN prev \cup {name} |-> IF k = name THEN value ELSE prev[k]]

\* useTransition: isPending stays true until every action started with
\* startTransition has settled.
PendingAfterCommit(awaiting, settling) == awaiting + settling > 0

FormItemDisabledB_never == FALSE

\* <fieldset disabled={isPending}> of FormItem.
FormItemDisabledB == b_isPending

SubmitEnabledB(src) ==
    IF src = "control" THEN ~FormItemDisabledB
    ELSE ~(b_props.submitDisabled /\ b_isPending)

\* form.setValue, which FormControl's onChange calls with the input's value.
BSetValue(name, value) ==
    /\ variant = "B"
    /\ b_formData' = SetValue(b_formData, name, value)
    /\ written' = [written EXCEPT ![name] = [set |-> TRUE, v |-> value]]
    /\ ev' = [Quiet("change") EXCEPT !.name = name]
    /\ UNCHANGED <<variant, a_vars, b_props, b_errors, b_isPending, b_awaiting, b_settling>>

\* handleSubmit: startTransition runs the action up to its first await. A failed
\* parse, or a synchronous onSubmit, takes the action through its catch block in
\* this same step.
BSubmit(src) ==
    /\ variant = "B"
    /\ SubmitEnabledB(src)
    /\ b_awaiting + b_settling < MaxInFlight
    /\ b_isPending' = TRUE
    /\ LET parsed == SchemaParse(b_formData)
           called == parsed.kind = "none"
           sync == ~called \/ b_props.onSubmit = "sync"
           thrown == IF called THEN HomeOnSubmit(b_formData) ELSE parsed
       IN  IF sync
           THEN /\ b_errors' = ErrorsAfterCatch(b_errors, thrown)
                /\ b_settling' = b_settling + 1
                /\ b_awaiting' = b_awaiting
                /\ ev' = [Quiet("submit") EXCEPT
                            !.src = src, !.valid = called, !.wasPending = b_isPending,
                            !.onSubmitArgs = IF called THEN <<b_formData>> ELSE <<>>,
                            !.onErrorArgs = OnErrorCalls(b_props, thrown),
                            !.thrown = thrown, !.before = b_formData]
           ELSE /\ b_awaiting' = b_awaiting + 1
                /\ UNCHANGED <<b_errors, b_settling>>
                /\ ev' = [Quiet("submit") EXCEPT
                            !.src = src, !.valid = TRUE, !.wasPending = b_isPending,
                            !.onSubmitArgs = <<b_formData>>, !.before = b_formData]
    /\ UNCHANGED <<variant, a_vars, b_props, b_formData, written>>

\* An async onSubmit settles and the action resumes after its await: through the
\* catch block when onSubmit rejected.
BHandlerSettles(outcome) ==
    /\ variant = "B"
    /\ b_awaiting > 0
    /\ b_awaiting' = b_awaiting - 1
    /\ b_settling' = b_settling + 1
    /\ b_errors' = ErrorsAfterCatch(b_errors, outcome)
    /\ ev' = [Quiet("settle") EXCEPT
                !.valid = TRUE, !.onErrorArgs = OnErrorCalls(b_props, outcome),
                !.thrown = outcome, !.before = b_formData]
    /\ UNCHANGED <<variant, a_vars, b_props, b_formData, b_isPending, written>>

\* The promise of a transition action resolves and React commits the flag.
BTransitionCommit ==
    /\ variant = "B"
    /\ b_settling > 0
    /\ b_settling' = b_settling - 1
    /\ b_isPending' = PendingAfterCommit(b_awaiting, b_settling - 1)
    /\ ev' = Quiet("commit")
    /\ UNCHANGED <<variant, a_vars, b_props, b_formData, b_errors, b_awaiting, written>>

-----------------------------------------------------------------------------
(* Rendering a bound control: FormLabel, FormControl, FormDescription and
   FormMessage all start with useFormField() *)

Controls == {"FormLabel", "FormControl", "FormDescription", "FormMessage"}

\* Which providers enclose the control: <Form>, <FormField name="title">, <FormItem>.
Nestings == [inForm : BOOLEAN, inField : BOOLEAN, inItem : BOOLEAN]

\* throw new Error('useFormField should be used within <FormField>')
ContextMisuse == "Error: useFormField should be used within <FormField>"

\* Reading a property of undefined: the context default is {}, so form.formData
\* (Variant B) and data (Variant A) are undefined outside <Form>.
TypeErrorThrown == "TypeError: Cannot read properties of undefined"

\* The errors prop CreatePostForm may pass: undefined, or the field errors of
\* the mutation's ZodError.
ErrorsPropsA == { <<>>, [f \in {"title"} |-> <<MsgTooSmall>>] }

ErrorOf(errors, name) == IF name \in DOMAIN errors THEN errors[name] ELSE <<>>

\* FormMessage returns null without an error (and without children); the other
\* controls always render their element.
Rendered(control, error) ==
    IF control = "FormMessage" /\ error = <<>> THEN "null" ELSE "rendered"

\* Variant A. FormField reads data[name] from the form context before it renders
\* its children; useFormField throws on an empty field name and reads
\* form.errors?.[name].
ViewA(control, nest, name, errors, isPending) ==
    LET outcome ==
            IF ~nest.inField THEN ContextMisuse
            ELSE IF ~nest.inForm THEN TypeErrorThrown
            ELSE Rendered(control, ErrorOf(errors, name))
        ok == outcome \in {"rendered", "null"}
    IN  [control |-> control, name |-> name, inForm |-> nest.inForm,
         inField |-> nest.inField, inItem |-> nest.inItem, outcome |-> outcome,
         thrownBy |-> IF ok THEN ""
                      ELSE IF nest.inField THEN "FormField" ELSE "useFormField",
         error |-> IF ok THEN ErrorOf(errors, name) ELSE <<>>,
         disabled |-> ok /\ nest.inItem /\ isPending,
         idDefined |-> ok /\ nest.inItem]

\* Variant B. FormField reads no form context; useFormField throws on an empty
\* field name, then reads form.formData[name] and form.errors[name].
ViewB(control, nest, name, errors, isPending) ==
    LET outcome ==
            IF ~nest.inField THEN ContextMisuse
            ELSE IF ~nest.inForm THEN TypeErrorThrown
            ELSE Rendered(control, ErrorOf(errors, name))
        ok == outcome \in {"rendered", "null"}
    IN  [control |-> control, name |-> name, inForm |-> nest.inForm,
         inField |-> nest.inField, inItem |-> nest.inItem, outcome |-> outcome,
         thrownBy |-> IF ok THEN "" ELSE "useFormField",
         error |-> IF ok THEN ErrorOf(errors, name) ELSE <<>>,
         disabled |-> ok /\ nest.inItem /\ isPending,
         idDefined |-> ok /\ nest.inItem]

\* React renders `control` for the field `title` under the nesting `nest`.
Render(control, nest, errorsProp) ==
    /\ variant = "A" => ev' = [Quiet("render") EXCEPT
                                !.view = ViewA(control, nest, "title", errorsProp, IsPendingA)]
    /\ variant = "B" => /\ errorsProp = <<>>
                        /\ ev' = [Quiet("render") EXCEPT
                                !.view = ViewB(control, nest, "title", b_errors, b_isPending)]
    /\ UNCHANGED <<variant, a_vars, b_vars, written>>

-----------------------------------------------------------------------------
(* The containers after mount *)

Init ==
    /\ variant \in {"A", "B"}
    /\ a_props \in (IF variant = "A" THEN PropsA ELSE {CreatePostFormProps})
    /\ a_data = DefaultValuesA
    /\ a_inflight = 0
    /\ b_props \in (IF variant = "B" THEN PropsB ELSE {HomeProps})
    /\ b_formData = DefaultValuesB
    /\ b_errors = <<>>
    /\ b_isPending = FALSE
    /\ b_awaiting = 0
    /\ b_settling = 0
    /\ written = NothingWritten(IF variant = "A" THEN FieldsA ELSE FieldsB)
    /\ ev = Quiet("mount")

AChangeAny == \E name \in FieldsA, event \in ChangeInputs : AChange(name, event)
ASubmitAny == \E src \in SubmitSources : ASubmit(src)
ASettleAny == \E outcome \in HandlerOutcomes : ASettle(outcome)
BSetValueAny == \E name \in FieldsB, value \in TitleStrings : BSetValue(name, value)
BSubmitAny == \E src \in SubmitSources : BSubmit(src)
BHandlerSettlesAny == \E outcome \in HandlerOutcomes : BHandlerSettles(outcome)

Next ==
    \/ AChangeAny
    \/ ASubmitAny
    \/ ASettleAny
    \/ BSetValueAny
    \/ BSubmitAny
    \/ BHandlerSettlesAny
    \/ BTransitionCommit

Spec == Init /\ [][Next]_vars

RenderAny ==
    \E control \in Controls, nest \in Nestings, errorsProp \in ErrorsPropsA :
        Render(control, nest, errorsProp)

RenderNext ==
    \/ ASubmitAny
    \/ ASettleAny
    \/ BSetValueAny
    \/ BSubmitAny
    \/ BHandlerSettlesAny
    \/ BTransitionCommit
    \/ RenderAny

\* The containers together with the renders of their bound controls.
RenderSpec == Init /\ [][RenderNext]_vars

\* An async onSubmit that was started settles, and a resolved action is
\* committed: the promise jobs of the event loop are always run.
FairSpec == Spec /\ WF_vars(BHandlerSettlesAny) /\ WF_vars(BTransitionCommit)

-----------------------------------------------------------------------------
(* Properties *)

\* The string an onChange input carries.
TypedString(input) ==
    IF input.kind = "string" THEN input.value ELSE input.currentTarget.value

IsDigits(s) == s # <<>> /\ \A i \in 1..Len(s) : s[i] \in DigitChars

IsIntegerLiteral(s) ==
    \/ IsDigits(s)
    \/ Len(s) > 1 /\ s[1] \in {"-", "+"} /\ IsDigits(Tail(s))

IsDecimalLiteral(s) ==
    \E k \in 1..Len(s) :
        /\ s[k] = "."
        /\ IsIntegerLiteral(SubSeq(s, 1, k - 1))
        /\ IsDigits(SubSeq(s, k + 1, Len(s)))

\* A numeric string: an integer or decimal literal, white space around it allowed.
IsNumeric(s) == IsIntegerLiteral(Trim(s)) \/ IsDecimalLiteral(Trim(s))

LiteralValue(s) ==
    IF s[1] = "-" THEN 0 - DecimalValue(Tail(s))
    ELSE IF s[1] = "+" THEN DecimalValue(Tail(s))
    ELSE DecimalValue(s)

\* The lengths of the prefixes of s, leading white space skipped, that are
\* integer literals.
LeadingIntegers(s) ==
    {k \in 1..Len(TrimStart(s)) : IsIntegerLiteral(SubSeq(TrimStart(s), 1, k))}

LongestLeadingInteger(s) ==
    SubSeq(TrimStart(s), 1,
           CHOOSE k \in LeadingIntegers(s) : \A j \in LeadingIntegers(s) : j <= k)

Overlay(defaults, w) ==
    [f \in DOMAIN defaults |-> IF w[f].set THEN w[f].v ELSE defaults[f]]

\* C1: Variant B: a submit of a value map the schema rejects does not call
\* onSubmit, and leaves the error map with exactly one entry per rejected
\* field, holding the validator's messages, and no entry for any other field.
C1_InvalidSubmitExposesFieldErrors ==
    (variant = "B" /\ ev.op = "submit" /\ Issues(b_formData) # {}) =>
        /\ ev.onSubmitArgs = <<>>
        /\ DOMAIN b_errors = Issues(b_formData)
        /\ \A f \in Issues(b_formData) : b_errors[f] = <<MsgTooSmall>>

\* Reached: a submit rejected for `content` alone, after `title` was edited.
C1_Witness ==
    /\ variant = "B" /\ ev.op = "submit"
    /\ Issues(b_formData) = {"content"}
    /\ written["title"].set
    /\ DOMAIN b_errors = {"content"}

\* C2: Variant B: after a submit whose value map passes validation the error
\* map is empty.
C2_ValidSubmitClearsErrors ==
    (variant = "B" /\ ev.op = "submit" /\ ev.valid) => b_errors = <<>>

\* C3: Variant A with isReset: once the handler of a submit has completed
\* successfully, the value map equals the default values.
C3_ResetRestoresDefaults ==
    (/\ variant = "A" /\ a_props.isReset
     /\ \/ ev.op = "settle" /\ a_props.onSubmit = "async" /\ ev.thrown.kind = "none"
        \/ ev.op = "submit" /\ a_props.onSubmit = "mutate")
    => a_data = DefaultValuesA

\* Reached: the handler resolved while the value map held edited values.
C3_Witness ==
    /\ variant = "A" /\ a_props.isReset /\ a_props.onSubmit = "async"
    /\ ev.op = "settle" /\ ev.thrown.kind = "none"
    /\ ev.before # DefaultValuesA
    /\ a_data = DefaultValuesA

\* C4 as stated: a field of type 'number' stores 0 for every string that is not
\* numeric and the integer value of a numeric string; a field of another type
\* stores the string; a raw string and a change event store the same value.
C4_NonNumericStoresZero ==
    (variant = "A" /\ ev.op = "change") =>
        LET s == TypedString(ev.input)
        IN  IF ev.type = "number"
            THEN /\ ~IsNumeric(s) => a_data[ev.name] = Num(0)
                 /\ IsIntegerLiteral(s) => a_data[ev.name] = Num(LiteralValue(s))
            ELSE a_data[ev.name] = Str(s)

\* C4 amended: a field of type 'number' stores 0 for every string that does not
\* start (after white space) with an integer, and otherwise the value of the
\* longest integer it starts with ("42" stores 42, "12a" stores 12, "3.7"
\* stores 3); a field of another type stores the string; the stored value
\* depends only on the string carried, raw or in a change event.
C4_LeadingIntegerOrZero ==
    (variant = "A" /\ ev.op = "change") =>
        LET s == TypedString(ev.input)
        IN  IF ev.type = "number"
            THEN IF LeadingIntegers(s) = {}
                 THEN a_data[ev.name] = Num(0)
                 ELSE a_data[ev.name] = Num(LiteralValue(LongestLeadingInteger(s)))
            ELSE a_data[ev.name] = Str(s)

\* Reached: "12a" typed into the price field, stored as 12.
C4_Witness ==
    /\ variant = "A" /\ ev.op = "change" /\ ev.type = "number"
    /\ ev.input = ChangeEvent(<<"1", "2", "a">>)
    /\ a_data["price"] = Num(12)

\* C5: Variant B with onError: when the values pass validation and onSubmit
\* throws an Error, onError is called exactly once, with that error, and the
\* value map is what it was before the step.
C5_AppErrorForwardedOnce ==
    (/\ variant = "B" /\ b_props.onError
     /\ ev.op \in {"submit", "settle"} /\ ev.valid /\ ev.thrown.kind = "Error")
    => /\ ev.onErrorArgs = <<ev.thrown>>
       /\ b_formData = ev.before

\* Reached: Home, values {title: 'Hello', content: 'x'}, 'Title is invalid'
\* passed to onError.
C5_Witness ==
    /\ variant = "B" /\ b_props.caller = "Home" /\ ev.op = "submit"
    /\ b_formData = [f \in FieldsB |-> IF f = "title" THEN Hello ELSE <<"x">>]
    /\ Len(ev.onErrorArgs) = 1
    /\ ev.onErrorArgs[1].message = "Title is invalid"

\* C6: in both variants a failure of the submit handler that is no schema
\* failure never leaves the submit processing as a rejected promise, and is
\* passed to the error handler whenever one was supplied.
C6_HandlerFailureForwardedOrSwallowed ==
    (ev.op \in {"submit", "settle"} /\ ev.thrown.kind \in {"Error", "NonError"})
    => /\ ~ev.escaped
       /\ (variant = "B" /\ b_props.onError) => ev.onErrorArgs = <<ev.thrown>>

\* C7: a bound control rendered without an enclosing field provider, or without
\* an enclosing form container, fails with the context-misuse error.
C7_MisnestedControlThrowsContextMisuse ==
    (ev.op = "render" /\ (~ev.view.inField \/ ~ev.view.inForm))
    => ev.view.outcome = ContextMisuse

\* C8: Variant A: a submit event that arrives while the pending flag is true
\* does not invoke the submit handler.
C8_NoInvocationWhilePending ==
    (variant = "A" /\ ev.op = "submit" /\ ev.wasPending) => ev.onSubmitArgs = <<>>

\* C9: in both variants the value map is the default values overlaid, field by
\* field, with the last value written through the setter since mount or since
\* the last reset.
C9_ValuesAreDefaultsOverlaidWithWrites ==
    /\ variant = "A" => a_data = Overlay(DefaultValuesA, written)
    /\ variant = "B" => b_formData = Overlay(DefaultValuesB, written)

\* Reached: both fields of Variant A written, one of them with a submission in
\* flight.
C9_Witness ==
    /\ variant = "A" /\ a_inflight > 0
    /\ written["title"].set /\ written["price"].set
    /\ a_data["title"] # DefaultValuesA["title"]
    /\ a_data["price"] # DefaultValuesA["price"]

\* C10: Variant B: the pending flag, and with it the disabling of the field
\* groups, is true exactly while a submission is in flight (from the submit
\* until the validation, the handler and the commit of the action are done);
\* after every outcome it becomes false again: always when the submit sources
\* are disabled while it is true (as in Home), and otherwise unless a further
\* submit has started before the ones in flight were done.
C10_PendingExactlyWhileInFlight ==
    /\ [](variant = "B" =>
            /\ b_isPending <=> (b_awaiting + b_settling > 0)
            /\ FormItemDisabledB <=> (b_awaiting + b_settling > 0))
    /\ [](b_isPending /\ b_props.submitDisabled => <>(~b_isPending))
    /\ [](b_isPending =>
            <>(~b_isPending \/ (ev.op = "submit" /\ b_awaiting + b_settling > 1)))

\* Reached: the flag back to false after a submission that left field errors.
C10_Witness ==
    /\ variant = "B" /\ ev.op = "commit" /\ ~b_isPending
    /\ b_errors # <<>>

====
